---- MODULE Spec2Model ----
(***************************************************************************)
(* Neon (PostgreSQL) -> Google Sheets sync: the one-shot run               *)
(* (OneTimeSyncToSheets.sync_data) and the interval run                    *)
(* (NeonToSheetsSync.start_continuous_sync), with the DatabaseConnection   *)
(* and GoogleSheetsConnection objects they drive.  One action per call     *)
(* the main thread makes on an external service, plus the asynchronous     *)
(* signal handler and the server dropping the database connection.         *)
(***************************************************************************)
EXTENDS Integers, Sequences, FiniteSets, TLC

\* ---------------------------------------------------------------- bounds
\* Largest number of rows / columns of the source table; the table of a run
\* has the first 1..MaxCols of the columns id, name, created_at, age, ...
\* (or is the wide table of TableWidths).
MaxRows == 2
MaxCols == 4
\* Cap on sync_count (continuous_sync.py:151,165): no cycle #MaxSyncs+1 starts.
MaxSyncs == 3
\* Seconds per minute, scaled down from 60 (continuous_sync.py:31) so that
\* the one-second wait loop stays small.
SecsPerMinute == 1

\* ------------------------------------------------------ program constants
\* int(os.getenv('SYNC_INTERVAL_MINUTES', '2'))
SyncIntervalMinutes == 2
\* sizes asked of get_or_create_worksheet
SetupDataRows == 1000
SetupDataCols == 50
MetaRows == 10
MetaCols == 3
MinDataRows == 100
MinDataCols == 20
RowSlack == 10
ColSlack == 5

\* self.sync_interval, in seconds
sync_interval == SyncIntervalMinutes * SecsPerMinute

\* os.getenv('TABLE_NAME')
table_name == "users"
\* datetime.now().strftime("%Y-%m-%d %H:%M:%S"): the wall clock is not
\* modelled, every reading of it gives this text.
NowText == "2024-06-01 12:00:00"

\* ------------------------------------------------------------ raw values
\* A database value as psycopg2 hands it over: kind, integer payload, text
\* payload, timestamp payload <<Y, M, D, h, m, s>>.
IntVal(n) == [t |-> "int", n |-> n, s |-> "", ts |-> <<>>]
TextVal(s) == [t |-> "text", n |-> 0, s |-> s, ts |-> <<>>]
TsVal(ts) == [t |-> "ts", n |-> 0, s |-> "", ts |-> ts]
NullVal == [t |-> "null", n |-> 0, s |-> "", ts |-> <<>>]
\* a whole number held as a float (numpy float64)
FloatVal(n) == [t |-> "float", n |-> n, s |-> "", ts |-> <<>>]

Digit(d) == CASE d = 0 -> "0" [] d = 1 -> "1" [] d = 2 -> "2" [] d = 3 -> "3"
              [] d = 4 -> "4" [] d = 5 -> "5" [] d = 6 -> "6" [] d = 7 -> "7"
              [] d = 8 -> "8" [] d = 9 -> "9"

RECURSIVE IntToStr(_)
\* str(n) for an int n >= 0
IntToStr(n) == IF n < 10 THEN Digit(n) ELSE IntToStr(n \div 10) \o Digit(n % 10)

\* zero-padded field of strftime (%m, %d, %H, %M, %S)
Pad2(n) == IF n < 10 THEN "0" \o Digit(n) ELSE IntToStr(n)

\* cell.strftime("%Y-%m-%d %H:%M:%S")
Strftime(ts) ==
    IntToStr(ts[1]) \o "-" \o Pad2(ts[2]) \o "-" \o Pad2(ts[3]) \o " "
        \o Pad2(ts[4]) \o ":" \o Pad2(ts[5]) \o ":" \o Pad2(ts[6])

\* str(value)
PyStr(v) == CASE v.t = "int" -> IntToStr(v.n)
              [] v.t = "float" -> IntToStr(v.n) \o ".0"
              [] v.t = "text" -> v.s
              [] v.t = "ts" -> Strftime(v.ts)
              [] v.t = "null" -> "None"

\* ---------------------------------------------------------- source table
ColName(j) == CASE j = 1 -> "id" [] j = 2 -> "name" [] j = 3 -> "created_at"
                [] j = 4 -> "age" [] OTHER -> "col" \o IntToStr(j)

PersonName(i) == CASE i = 1 -> "Ann" [] i = 2 -> "Bo" [] OTHER -> "P" \o IntToStr(i)

\* value of column j in the row whose id is i
CellOf(i, j) == CASE j = 1 -> IntVal(i)
                  [] j = 2 -> TextVal(PersonName(i))
                  [] j = 3 -> IF i % 2 = 1 THEN TsVal(<<2024, 1, i, 0, 0, 0>>) ELSE NullVal
                  [] j = 4 -> IF i % 2 = 1 THEN IntVal(30 + i) ELSE NullVal
                  [] OTHER -> IntVal(i * j)

RowOf(i, c) == [j \in 1..c |-> CellOf(i, j)]

RECURSIVE SortedIds(_)
\* the ids of S in ascending order (ORDER BY 1)
SortedIds(S) ==
    IF S = {} THEN <<>>
    ELSE LET m == CHOOSE x \in S : \A y \in S : x <= y
         IN <<m>> \o SortedIds(S \ {m})

\* A DataFrame: None, or columns and rows.
NoneDF == [isNone |-> TRUE, columns |-> <<>>, rows |-> <<>>]
\* pd.DataFrame()
EmptyDF == [isNone |-> FALSE, columns |-> <<>>, rows |-> <<>>]
\* pandas' type inference for one column of fetched values: integers with a
\* None among them become float64 (None becomes NaN); text stays object;
\* timestamps with a None become datetime64 (None becomes NaT).
IntsWithNull(data, j) ==
    /\ \E k \in 1..Len(data) : data[k][j].t = "null"
    /\ \E k \in 1..Len(data) : data[k][j].t = "int"
    /\ \A k \in 1..Len(data) : data[k][j].t \in {"int", "null"}

\* the cell of row k, column j as the frame holds it
Inferred(data, k, j) ==
    IF data[k][j].t = "int" /\ IntsWithNull(data, j)
    THEN FloatVal(data[k][j].n)
    ELSE data[k][j]

\* pd.DataFrame(data, columns=columns)
DataFrame(cols, data) ==
    [isNone |-> FALSE, columns |-> cols,
     rows |-> [k \in 1..Len(data) |-> [j \in 1..Len(data[k]) |-> Inferred(data, k, j)]]]

\* the result set of SELECT * FROM "<table>" ORDER BY 1 when the table holds
\* the rows with the ids of S and has c columns
ResultSet(S, c) ==
    [columns |-> [j \in 1..c |-> ColName(j)],
     data |-> LET ids == SortedIds(S) IN [k \in 1..Len(ids) |-> RowOf(ids[k], c)]]

\* every state a table of c columns can be in when it is read
TableStates(c) == {ResultSet(1..r, c) : r \in 0..MaxRows}

\* len(df), len(df.columns)
DfLen(d) == Len(d.rows)
DfCols(d) == Len(d.columns)

\* --------------------------------------------------------------- sheets
\* A worksheet of the spreadsheet: absent, or a grid of rows x cols holding
\* cells (a sequence of rows of strings, from the top-left cell).
AbsentWs == [exists |-> FALSE, rows |-> 0, cols |-> 0, cells |-> <<>>]

Max(a, b) == IF a >= b THEN a ELSE b

RECURSIVE Width(_)
\* the length of the longest row of data
Width(data) == IF data = <<>> THEN 0 ELSE Max(Len(Head(data)), Width(Tail(data)))

\* one cell of prepare_dataframe_for_upload
CleanCell(cell) == CASE cell.t = "null" -> ""
                     [] cell.t = "ts" -> Strftime(cell.ts)
                     [] OTHER -> PyStr(cell)

\* prepare_dataframe_for_upload without the row of column names.
prepare_dataframe_for_upload_NoHeader(d) ==
    [k \in 1..Len(d.rows) |-> [j \in 1..Len(d.rows[k]) |-> CleanCell(d.rows[k][j])]]

\* [df.columns.tolist()] + df.values.tolist(), every cell cleaned
prepare_dataframe_for_upload(d) ==
    LET header == [j \in 1..Len(d.columns) |-> TextVal(d.columns[j])]
        data_to_upload == <<header>> \o d.rows
    IN [k \in 1..Len(data_to_upload) |->
           [j \in 1..Len(data_to_upload[k]) |-> CleanCell(data_to_upload[k][j])]]

\* get_or_create_worksheet that gives an existing worksheet the requested size.
get_or_create_worksheet_Resizes(w, rows, cols) ==
    IF w.exists
    THEN {[ok |-> TRUE, ws |-> [w EXCEPT !.rows = rows, !.cols = cols], ops |-> {"get"}],
          [ok |-> FALSE, ws |-> w, ops |-> {"get"}]}
    ELSE {[ok |-> TRUE, ws |-> [exists |-> TRUE, rows |-> rows, cols |-> cols, cells |-> <<>>],
           ops |-> {"get", "create"}],
          [ok |-> FALSE, ws |-> w, ops |-> {"get", "create"}]}

\* The outcomes of get_or_create_worksheet(name, rows, cols) on worksheet w:
\* found, created, or an error of the service (None or an exception, which
\* every caller turns into False); ops are the calls issued on the service.
get_or_create_worksheet(w, rows, cols) ==
    IF w.exists
    THEN {[ok |-> TRUE, ws |-> w, ops |-> {"get"}], [ok |-> FALSE, ws |-> w, ops |-> {"get"}]}
    ELSE {[ok |-> TRUE, ws |-> [exists |-> TRUE, rows |-> rows, cols |-> cols, cells |-> <<>>],
           ops |-> {"get", "create"}],
          [ok |-> FALSE, ws |-> w, ops |-> {"get", "create"}]}

\* worksheet.clear()
Cleared(w) == [w EXCEPT !.cells = <<>>]
\* row k of cells, empty below the last row
RowAt(cells, k) == IF k <= Len(cells) THEN cells[k] ELSE <<>>

\* a row of values written over a row of cells from its first column
Overwritten(old, new) ==
    [j \in 1..Max(Len(old), Len(new)) |-> IF j <= Len(new) THEN new[j] ELSE old[j]]

\* worksheet.update(range_name='A1', values=data): the values replace the
\* cells of the range they cover, every other cell keeps its contents
Updated(w, data) == [w EXCEPT !.cells = [k \in 1..Max(Len(w.cells), Len(data)) |->
                                            Overwritten(RowAt(w.cells, k), RowAt(data, k))],
                              !.rows = Max(w.rows, Len(data)),
                              !.cols = Max(w.cols, Width(data))]

\* update_worksheet_data without the clear.
update_worksheet_data_NoClear(w, data) ==
    {[ok |-> FALSE, ws |-> w, ops |-> {"update"}],
     [ok |-> TRUE, ws |-> Updated(w, data), ops |-> {"update"}]}

\* update_worksheet_data in which a failed update puts back what the clear
\* removed.
update_worksheet_data_Atomic(w, data) ==
    {[ok |-> FALSE, ws |-> w, ops |-> {"clear"}],
     [ok |-> FALSE, ws |-> w, ops |-> {"clear", "update"}],
     [ok |-> TRUE, ws |-> Updated(Cleared(w), data), ops |-> {"clear", "update"}]}

\* The outcomes of update_worksheet_data(worksheet, data): the clear fails,
\* the update fails after the clear, or both succeed.
update_worksheet_data(w, data) ==
    {[ok |-> FALSE, ws |-> w, ops |-> {"clear"}],
     [ok |-> FALSE, ws |-> Cleared(w), ops |-> {"clear", "update"}],
     [ok |-> TRUE, ws |-> Updated(Cleared(w), data), ops |-> {"clear", "update"}]}

\* The outcomes of update_data_worksheet(df, worksheet_name) on worksheet w.
update_data_worksheet(w, d) ==
    UNION {IF g.ok
           THEN {[ok |-> u.ok, ws |-> u.ws, ops |-> g.ops \cup u.ops] :
                    u \in update_worksheet_data(g.ws, prepare_dataframe_for_upload(d))}
           ELSE {g} :
           g \in get_or_create_worksheet(w, Max(DfLen(d) + RowSlack, MinDataRows),
                                            Max(DfCols(d) + ColSlack, MinDataCols))}

\* sync_info of update_metadata_worksheet: the dict as rows of [key, str(value)]
SyncInfo(metadata) ==
    <<<<"Attribute", "Value">>>> \o
        [k \in 1..Len(metadata) |-> <<metadata[k][1], PyStr(metadata[k][2])>>]

\* The outcomes of update_metadata_worksheet(metadata) on worksheet w.
update_metadata_worksheet(w, metadata) ==
    UNION {IF g.ok
           THEN {[ok |-> u.ok, ws |-> u.ws, ops |-> g.ops \cup u.ops] :
                    u \in update_worksheet_data(g.ws, SyncInfo(metadata))}
           ELSE {g} :
           g \in get_or_create_worksheet(w, MetaRows, MetaCols)}

\* f"{self.sync_interval/60:.1f} minutes" (the interval is a whole number of minutes)
IntervalText == IntToStr(sync_interval \div SecsPerMinute) \o ".0 minutes"

\* CycleMetadata with the column count written as the row count.
CycleMetadata_ColsAsRows(d) ==
    << <<"Last Sync Time", TextVal(NowText)>>,
       <<"Source Table", TextVal(table_name)>>,
       <<"Total Rows", IntVal(DfCols(d))>>,
       <<"Total Columns", IntVal(DfCols(d))>>,
       <<"Data Worksheet", TextVal(table_name \o "_data")>>,
       <<"Sync Interval", TextVal(IntervalText)>>,
       <<"Status", TextVal("Running")>> >>

\* the metadata dict of perform_sync_cycle
CycleMetadata(d) ==
    << <<"Last Sync Time", TextVal(NowText)>>,
       <<"Source Table", TextVal(table_name)>>,
       <<"Total Rows", IntVal(DfLen(d))>>,
       <<"Total Columns", IntVal(DfCols(d))>>,
       <<"Data Worksheet", TextVal(table_name \o "_data")>>,
       <<"Sync Interval", TextVal(IntervalText)>>,
       <<"Status", TextVal("Running")>> >>

\* the metadata dict of download_and_upload_data
OneTimeMetadata(d) ==
    << <<"Last Sync Time", TextVal(NowText)>>,
       <<"Source Table", TextVal(table_name)>>,
       <<"Total Rows", IntVal(DfLen(d))>>,
       <<"Total Columns", IntVal(DfCols(d))>>,
       <<"Data Worksheet", TextVal(table_name \o "_data")>>,
       <<"Sync Type", TextVal("One-time")>> >>

\* final_metadata of start_continuous_sync
FinalMetadata(count) ==
    << <<"Last Sync Time", TextVal(NowText)>>,
       <<"Source Table", TextVal(table_name)>>,
       <<"Total Syncs Completed", IntVal(count)>>,
       <<"Status", TextVal("Stopped")>> >>

\* ------------------------------------------------------------- database
\* self.connection: "none" (None), "open", "aborted" (open, inside a failed
\* transaction), "broken" (dropped by the server, not yet noticed by the
\* client: connection.closed is still 0), "closed" (connection.closed != 0).

\* The outcomes of query_database(query, params) with self.connection = conn:
\* res is "rows" (a result list), "none" (None) or "raise" (an exception
\* leaves the method: rollback() on a closed connection raises in the handler).
query_database(conn) ==
    CASE conn = "none" ->
           {[res |-> "none", conn |-> "none"],
            [res |-> "rows", conn |-> "closed"],
            [res |-> "none", conn |-> "closed"]}
      [] conn = "open" ->
           {[res |-> "rows", conn |-> "open"], [res |-> "none", conn |-> "open"]}
      [] conn = "aborted" -> {[res |-> "none", conn |-> "open"]}
      [] conn = "broken" -> {[res |-> "raise", conn |-> "closed"]}
      [] conn = "closed" -> {[res |-> "raise", conn |-> "closed"]}

\* table_exists that answers True when the query returned None.
table_exists_ErrorIsTrue(conn) ==
    UNION {CASE q.res = "rows" ->
                  {[ans |-> "true", found |-> "found", conn |-> q.conn],
                   [ans |-> "false", found |-> "missing", conn |-> q.conn]}
             [] q.res = "none" -> {[ans |-> "true", found |-> "error", conn |-> q.conn]}
             [] q.res = "raise" -> {[ans |-> "raise", found |-> "error", conn |-> q.conn]} :
           q \in query_database(conn)}

\* The outcomes of table_exists(table_name): ans is "true", "false" or
\* "raise"; found tells whether the table is in the schema (unknown when the
\* query did not run).
table_exists(conn) ==
    UNION {CASE q.res = "rows" ->
                  {[ans |-> "true", found |-> "found", conn |-> q.conn],
                   [ans |-> "false", found |-> "missing", conn |-> q.conn]}
             [] q.res = "none" -> {[ans |-> "false", found |-> "error", conn |-> q.conn]}
             [] q.res = "raise" -> {[ans |-> "raise", found |-> "error", conn |-> q.conn]} :
           q \in query_database(conn)}

\* if not self.connection or self.connection.closed
needs_connect(conn) == conn \in {"none", "closed"}

\* get_table_data without the test of the connection: the SELECT is sent on
\* whatever self.connection is.
get_table_data_NoReconnect(conn, c) ==
    CASE conn = "open" ->
           {[df |-> IF Len(t.data) = 0 THEN EmptyDF ELSE DataFrame(t.columns, t.data),
             conn |-> "open", ops |-> {"execute"}] : t \in TableStates(c)}
           \cup {[df |-> NoneDF, conn |-> "aborted", ops |-> {"execute"}]}
      [] conn = "broken" -> {[df |-> NoneDF, conn |-> "closed", ops |-> {"execute"}]}
      [] OTHER -> {[df |-> NoneDF, conn |-> conn, ops |-> {"execute"}]}

\* The outcomes of get_table_data(table_name) with self.connection = conn
\* on a table of c columns; ops are the calls issued on the database:
\* "connect" when connect() was called, "execute" when the SELECT was sent.
get_table_data(conn, c) ==
    LET connected == IF needs_connect(conn) THEN {"open", "refused"} ELSE {conn}
        ops == IF needs_connect(conn) THEN {"connect", "execute"} ELSE {"execute"}
    IN UNION {CASE x = "refused" -> {[df |-> NoneDF, conn |-> conn, ops |-> {"connect"}]}
                [] x = "open" ->
                     {[df |-> IF Len(t.data) = 0 THEN EmptyDF ELSE DataFrame(t.columns, t.data),
                       conn |-> "open", ops |-> ops] : t \in TableStates(c)}
                     \cup {[df |-> NoneDF, conn |-> "aborted", ops |-> ops]}
                [] x = "aborted" -> {[df |-> NoneDF, conn |-> "aborted", ops |-> ops]}
                [] x = "broken" -> {[df |-> NoneDF, conn |-> "closed", ops |-> ops]} :
              x \in connected}

\* disconnect(): close() when self.connection is set; the closed connection
\* object stays in self.connection
disconnect(conn) == IF conn = "none" THEN "none" ELSE "closed"

\* The outcomes of test_connection() with self.connection = conn: connect()
\* fails; or it succeeds, the three queries run or fail, and the finally
\* clause disconnects.
test_connection(conn) ==
    {[ok |-> FALSE, conn |-> conn],
     [ok |-> TRUE, conn |-> disconnect("open")],
     [ok |-> FALSE, conn |-> disconnect("open")]}

\* ---------------------------------------------------------------- state
VARIABLES
    mode,          \* "oneshot" (sync_data), "interval" (start_continuous_sync)
                   \* or "dbtest" (main of core/database.py)
    table_columns, \* the number of columns of the source table
    pc,            \* the main thread's position
    result,        \* what the run returned: "none" yet, "true", "false", "raised",
                   \* "done" (main of core/database.py returned)
    exit_status,   \* the process exit status, -1 while it runs
    db_connection, \* self.db.connection
    df,            \* self.df
    spreadsheet,   \* self.sheets.spreadsheet is set
    data_ws,       \* the worksheet "<table>_data"
    meta_ws,       \* the worksheet "Sync_Metadata"
    is_running,    \* self.is_running
    i,             \* the index of the one-second wait loop
    sync_count,    \* sync_count of start_continuous_sync
    in_loop,       \* the initial cycle is over, the while loop has been entered
    cycle_ok,      \* what the last cycle returned
    log,           \* the service calls issued since the run or the cycle began
    table_found,   \* what the existence check learnt: "unchecked", "found", "missing", "error"
    sleeps_after_stop, \* one-second sleeps begun with is_running cleared
    stopped_in,    \* pc at which the stop request cleared is_running, "" if none
    syncs_ok       \* the number of cycles of the run that returned success

vars == <<mode, table_columns, pc, result, exit_status, db_connection, df, spreadsheet, data_ws,
          meta_ws, is_running, i, sync_count, in_loop, cycle_ok, log,
          table_found, sleeps_after_stop, stopped_in, syncs_ok>>

runVars == <<mode, table_columns>>
dbVars == <<db_connection, df>>
sheetVars == <<spreadsheet, data_ws, meta_ws>>
loopVars == <<i, sync_count, in_loop>>
stopVars == <<is_running, sleeps_after_stop, stopped_in>>

\* the numbers of columns the source table of a run can have: the small
\* ones, and one more than the columns setup_worksheets asks for
TableWidths == (1..MaxCols) \cup {SetupDataCols + 1}

\* the worksheets an earlier run left in the spreadsheet
FullTable == ResultSet(1..MaxRows, MaxCols)
FullDF == DataFrame(FullTable.columns, FullTable.data)
PriorDataWs == [exists |-> TRUE, rows |-> SetupDataRows, cols |-> SetupDataCols,
                cells |-> prepare_dataframe_for_upload(FullDF)]
PriorMetaWs == [exists |-> TRUE, rows |-> MetaRows, cols |-> MetaCols,
                cells |-> SyncInfo(OneTimeMetadata(FullDF))]

Init ==
    /\ mode \in {"oneshot", "interval", "dbtest"}
    /\ table_columns \in TableWidths
    /\ pc = "validate"
    /\ result = "none"
    /\ exit_status = -1
    /\ db_connection = "none"
    /\ df = NoneDF
    /\ spreadsheet = FALSE
    /\ \E prior \in BOOLEAN :
          /\ data_ws = IF prior THEN PriorDataWs ELSE AbsentWs
          /\ meta_ws = IF prior THEN PriorMetaWs ELSE AbsentWs
    /\ is_running = TRUE
    /\ i = 0
    /\ sync_count = 0
    /\ in_loop = FALSE
    /\ cycle_ok = FALSE
    /\ log = {}
    /\ table_found = "unchecked"
    /\ sleeps_after_stop = 0
    /\ stopped_in = ""
    /\ syncs_ok = 0

Tag(name, ops) == {name \o ":" \o o : o \in ops}

\* the run function returns v (or is left by an exception when v = "raised")
Return(v) == pc' = "returned" /\ result' = v

\* perform_sync_cycle / download_and_upload_data returns ok
CycleReturn(ok) == pc' = "cycle_ret" /\ cycle_ok' = ok

\* a cycle begins
BeginCycle == pc' = "read" /\ log' = {}

\* -------------------------------------------------------------- set-up
\* validate_environment()
ValidateEnvironment ==
    /\ pc = "validate"
    /\ \E ok \in BOOLEAN :
          CASE ok /\ mode = "dbtest" -> pc' = "test_connection" /\ result' = result
            [] ok /\ mode # "dbtest" -> pc' = "db_connect" /\ result' = result
            [] ~ok -> Return(IF mode = "dbtest" THEN "done" ELSE "false")
    /\ UNCHANGED <<runVars, syncs_ok, exit_status, dbVars, sheetVars, loopVars, stopVars,
                   cycle_ok, log, table_found>>

\* connect_to_services: self.db.connect()
DbConnect ==
    /\ pc = "db_connect"
    /\ \E ok \in BOOLEAN :
          IF ok THEN /\ db_connection' = "open"
                     /\ log' = log \cup {"db:connect"}
                     /\ pc' = "table_exists" /\ result' = result
          ELSE /\ UNCHANGED <<db_connection, log>>
               /\ Return("false")
    /\ UNCHANGED <<runVars, syncs_ok, exit_status, df, sheetVars, loopVars, stopVars,
                   cycle_ok, table_found>>

\* TableExists with the answer ignored unless the query raised.
TableExists_AnswerIgnored ==
    /\ pc = "table_exists"
    /\ \E r \in table_exists(db_connection) :
          /\ db_connection' = r.conn
          /\ table_found' = r.found
          /\ IF r.ans = "raise" THEN Return("raised")
             ELSE pc' = "sheets_connect" /\ result' = result
    /\ UNCHANGED <<runVars, syncs_ok, exit_status, df, sheetVars, loopVars, stopVars,
                   cycle_ok, log>>

\* connect_to_services: self.db.table_exists(self.table_name); and the
\* table_exists(table_name) of main in core/database.py, after which main
\* prints the table summary (get_table_info, get_row_count) and returns
TableExists ==
    /\ pc = "table_exists"
    /\ \E r \in table_exists(db_connection) :
          /\ db_connection' = r.conn
          /\ table_found' = r.found
          /\ CASE r.ans = "true" /\ mode # "dbtest" ->
                    pc' = "sheets_connect" /\ result' = result
               [] r.ans = "true" /\ mode = "dbtest" -> Return("done")
               [] r.ans = "false" -> Return(IF mode = "dbtest" THEN "done" ELSE "false")
               [] r.ans = "raise" -> Return("raised")
    /\ UNCHANGED <<runVars, syncs_ok, exit_status, df, sheetVars, loopVars, stopVars,
                   cycle_ok, log>>

\* main of core/database.py: db.test_connection()
TestConnection ==
    /\ pc = "test_connection"
    /\ \E r \in test_connection(db_connection) :
          /\ db_connection' = r.conn
          /\ IF r.ok THEN pc' = "table_exists" /\ result' = result
             ELSE Return("done")
    /\ UNCHANGED <<runVars, syncs_ok, exit_status, df, sheetVars, loopVars, stopVars,
                   cycle_ok, log, table_found>>

\* connect_to_services: self.sheets.connect()
SheetsConnect ==
    /\ pc = "sheets_connect"
    /\ log' = log \cup {"sheets:connect"}
    /\ \E ok \in BOOLEAN :
          IF ok THEN spreadsheet' = TRUE /\ pc' = "setup_worksheets" /\ result' = result
          ELSE UNCHANGED spreadsheet /\ Return("false")
    /\ UNCHANGED <<runVars, syncs_ok, exit_status, dbVars, data_ws, meta_ws, loopVars,
                   stopVars, cycle_ok, table_found>>

\* The outcomes of setup_worksheets(table_name) on the two worksheets.
setup_worksheets(dw, mw) ==
    UNION {IF g.ok
           THEN {[ok |-> h.ok, data |-> g.ws, meta |-> h.ws,
                  ops |-> Tag("data", g.ops) \cup Tag("meta", h.ops)] :
                    h \in get_or_create_worksheet(mw, MetaRows, MetaCols)}
           ELSE {[ok |-> FALSE, data |-> g.ws, meta |-> mw, ops |-> Tag("data", g.ops)]} :
           g \in get_or_create_worksheet(dw, SetupDataRows, SetupDataCols)}

\* connect_to_services: self.sheets.setup_worksheets(self.table_name); on
\* success the first cycle follows (sync_count = 1 in interval mode)
SetupWorksheets ==
    /\ pc = "setup_worksheets"
    /\ \E r \in setup_worksheets(data_ws, meta_ws) :
          /\ data_ws' = r.data
          /\ meta_ws' = r.meta
          /\ IF r.ok
             THEN /\ pc' = "read" /\ result' = result
                  /\ log' = {}
             ELSE /\ Return("false")
                  /\ log' = log \cup r.ops
    /\ UNCHANGED <<runVars, syncs_ok, exit_status, dbVars, spreadsheet, loopVars, stopVars,
                   cycle_ok, table_found>>

\* --------------------------------------------------------------- cycle
\* GetTableData with the test reduced to "self.df is None": an empty frame
\* goes on to the writes.
GetTableData_NoEmptyTest ==
    /\ pc = "read"
    /\ \E r \in get_table_data(db_connection, table_columns) :
          /\ db_connection' = r.conn
          /\ df' = r.df
          /\ log' = log \cup {"db:read"} \cup Tag("db", r.ops)
          /\ IF r.df.isNone
             THEN CycleReturn(FALSE)
             ELSE pc' = "write_data" /\ cycle_ok' = cycle_ok
    /\ UNCHANGED <<runVars, syncs_ok, result, exit_status, sheetVars, loopVars, stopVars,
                   table_found>>

\* perform_sync_cycle / download_and_upload_data: self.df = get_table_data(),
\* and the return on None or on zero rows
GetTableData ==
    /\ pc = "read"
    /\ \E r \in get_table_data(db_connection, table_columns) :
          /\ db_connection' = r.conn
          /\ df' = r.df
          /\ log' = log \cup {"db:read"} \cup Tag("db", r.ops)
          /\ IF r.df.isNone \/ DfLen(r.df) = 0
             THEN CycleReturn(FALSE)
             ELSE pc' = "write_data" /\ cycle_ok' = cycle_ok
    /\ UNCHANGED <<runVars, syncs_ok, result, exit_status, sheetVars, loopVars, stopVars,
                   table_found>>

\* UpdateDataWorksheet that gives the cycle up when is_running is cleared.
UpdateDataWorksheet_HonoursStop ==
    /\ pc = "write_data"
    /\ IF mode = "interval" /\ ~is_running
       THEN /\ pc' = "shutdown"
            /\ UNCHANGED <<data_ws, log, cycle_ok>>
       ELSE \E r \in update_data_worksheet(data_ws, df) :
               /\ data_ws' = r.ws
               /\ log' = log \cup Tag("data", r.ops)
               /\ IF r.ok THEN pc' = "write_meta" /\ cycle_ok' = cycle_ok
                  ELSE CycleReturn(FALSE)
    /\ UNCHANGED <<runVars, syncs_ok, result, exit_status, dbVars, spreadsheet, meta_ws,
                   loopVars, stopVars, table_found>>

\* UpdateDataWorksheet whose result is ignored: the record is written next.
UpdateDataWorksheet_ResultIgnored ==
    /\ pc = "write_data"
    /\ \E r \in update_data_worksheet(data_ws, df) :
          /\ data_ws' = r.ws
          /\ log' = log \cup Tag("data", r.ops)
          /\ pc' = "write_meta" /\ cycle_ok' = cycle_ok
    /\ UNCHANGED <<runVars, syncs_ok, result, exit_status, dbVars, spreadsheet, meta_ws,
                   loopVars, stopVars, table_found>>

\* perform_sync_cycle / download_and_upload_data: update_data_worksheet(df, name)
UpdateDataWorksheet ==
    /\ pc = "write_data"
    /\ \E r \in update_data_worksheet(data_ws, df) :
          /\ data_ws' = r.ws
          /\ log' = log \cup Tag("data", r.ops)
          /\ IF r.ok THEN pc' = "write_meta" /\ cycle_ok' = cycle_ok
             ELSE CycleReturn(FALSE)
    /\ UNCHANGED <<runVars, syncs_ok, result, exit_status, dbVars, spreadsheet, meta_ws,
                   loopVars, stopVars, table_found>>

\* UpdateMetadataWorksheet whose failure leaves the cycle as an exception.
UpdateMetadataWorksheet_Raises ==
    /\ pc = "write_meta"
    /\ \E r \in update_metadata_worksheet(meta_ws,
                    IF mode = "interval" THEN CycleMetadata(df) ELSE OneTimeMetadata(df)) :
          /\ meta_ws' = r.ws
          /\ log' = log \cup Tag("meta", r.ops)
          /\ IF r.ok THEN CycleReturn(TRUE) /\ result' = result
             ELSE Return("raised") /\ cycle_ok' = cycle_ok
    /\ UNCHANGED <<runVars, syncs_ok, exit_status, dbVars, spreadsheet, data_ws, loopVars,
                   stopVars, table_found>>

\* perform_sync_cycle / download_and_upload_data: update_metadata_worksheet(metadata)
UpdateMetadataWorksheet ==
    /\ pc = "write_meta"
    /\ \E r \in update_metadata_worksheet(meta_ws,
                    IF mode = "interval" THEN CycleMetadata(df) ELSE OneTimeMetadata(df)) :
          /\ meta_ws' = r.ws
          /\ log' = log \cup Tag("meta", r.ops)
          /\ CycleReturn(r.ok)
    /\ UNCHANGED <<runVars, syncs_ok, result, exit_status, dbVars, spreadsheet, data_ws,
                   loopVars, stopVars, table_found>>

\* AfterCycle with a loop that a failed cycle ends (break on failure).
AfterCycle_BreakOnFailure ==
    /\ pc = "cycle_ret"
    /\ CASE mode = "oneshot" ->
              /\ Return(IF cycle_ok THEN "true" ELSE "false")
              /\ UNCHANGED loopVars
         [] mode = "interval" /\ ~in_loop /\ ~cycle_ok ->
              /\ Return("false")
              /\ UNCHANGED loopVars
         [] mode = "interval" /\ ~in_loop /\ cycle_ok ->
              /\ pc' = "loop_check" /\ result' = result
              /\ sync_count' = 1 /\ in_loop' = TRUE /\ i' = i
         [] mode = "interval" /\ in_loop ->
              /\ pc' = IF cycle_ok THEN "loop_check" ELSE "shutdown"
              /\ result' = result
              /\ UNCHANGED loopVars
    /\ UNCHANGED <<runVars, exit_status, dbVars, sheetVars, stopVars, cycle_ok, log,
                   table_found>>
    /\ syncs_ok' = IF cycle_ok THEN syncs_ok + 1 ELSE syncs_ok

\* What the caller does with the cycle's result: sync_data returns it;
\* start_continuous_sync returns False after a failed initial cycle, sets
\* sync_count = 1 after a good one, and goes back to the while test after a
\* cycle of the loop, whatever it returned.
AfterCycle ==
    /\ pc = "cycle_ret"
    /\ CASE mode = "oneshot" ->
              /\ Return(IF cycle_ok THEN "true" ELSE "false")
              /\ UNCHANGED loopVars
         [] mode = "interval" /\ ~in_loop /\ ~cycle_ok ->
              /\ Return("false")
              /\ UNCHANGED loopVars
         [] mode = "interval" /\ ~in_loop /\ cycle_ok ->
              /\ pc' = "loop_check" /\ result' = result
              /\ sync_count' = 1 /\ in_loop' = TRUE /\ i' = i
         [] mode = "interval" /\ in_loop ->
              /\ pc' = "loop_check" /\ result' = result
              /\ UNCHANGED loopVars
    /\ UNCHANGED <<runVars, exit_status, dbVars, sheetVars, stopVars, cycle_ok, log,
                   table_found>>
    /\ syncs_ok' = IF cycle_ok THEN syncs_ok + 1 ELSE syncs_ok

\* ----------------------------------------------------------- scheduler
\* while self.is_running:
LoopCheck ==
    /\ pc = "loop_check"
    /\ IF is_running THEN pc' = "wait_check" /\ i' = 0
       ELSE pc' = "shutdown" /\ i' = i
    /\ UNCHANGED <<runVars, syncs_ok, result, exit_status, dbVars, sheetVars, sync_count,
                   in_loop, stopVars, cycle_ok, log, table_found>>

\* WaitCheck without the test of is_running: the whole interval is slept.
WaitCheck_NoPoll ==
    /\ pc = "wait_check"
    /\ IF i < sync_interval THEN pc' = "sleep" ELSE pc' = "post_wait"
    /\ UNCHANGED <<runVars, syncs_ok, result, exit_status, dbVars, sheetVars, loopVars,
                   stopVars, cycle_ok, log, table_found>>

\* for i in range(self.sync_interval): if not self.is_running: break
WaitCheck ==
    /\ pc = "wait_check"
    /\ IF i < sync_interval /\ is_running THEN pc' = "sleep" ELSE pc' = "post_wait"
    /\ UNCHANGED <<runVars, syncs_ok, result, exit_status, dbVars, sheetVars, loopVars,
                   stopVars, cycle_ok, log, table_found>>

\* time.sleep(1)
Sleep ==
    /\ pc = "sleep"
    /\ i' = i + 1
    /\ pc' = "wait_check"
    /\ sleeps_after_stop' = IF is_running THEN sleeps_after_stop ELSE sleeps_after_stop + 1
    /\ UNCHANGED <<runVars, syncs_ok, result, exit_status, dbVars, sheetVars, sync_count,
                   in_loop, is_running, stopped_in, cycle_ok, log, table_found>>

\* if not self.is_running: break; else sync_count += 1 and the next cycle
PostWait ==
    /\ pc = "post_wait"
    /\ IF ~is_running
       THEN /\ pc' = "shutdown"
            /\ UNCHANGED <<sync_count, log>>
       ELSE /\ sync_count < MaxSyncs
            /\ sync_count' = sync_count + 1
            /\ BeginCycle
    /\ UNCHANGED <<runVars, syncs_ok, result, exit_status, dbVars, sheetVars, i, in_loop,
                   stopVars, cycle_ok, table_found>>

\* Shutdown without the disconnect.
Shutdown_NoDisconnect ==
    /\ pc = "shutdown"
    /\ pc' = "final_meta"
    /\ UNCHANGED <<runVars, syncs_ok, result, exit_status, dbVars, sheetVars, loopVars,
                   stopVars, cycle_ok, log, table_found>>

\* Cleanup: if self.db.connection: self.db.disconnect()
Shutdown ==
    /\ pc = "shutdown"
    /\ db_connection' = disconnect(db_connection)
    /\ pc' = "final_meta"
    /\ UNCHANGED <<runVars, syncs_ok, result, exit_status, df, sheetVars, loopVars,
                   stopVars, cycle_ok, log, table_found>>

\* the final update_metadata_worksheet(final_metadata), its failure ignored,
\* and return True
FinalMetadataWrite ==
    /\ pc = "final_meta"
    /\ \E r \in update_metadata_worksheet(meta_ws, FinalMetadata(sync_count)) :
          /\ meta_ws' = r.ws
          /\ log' = log \cup Tag("final", r.ops) \cup (IF r.ok THEN {"final:ok"} ELSE {})
    /\ Return("true")
    /\ UNCHANGED <<runVars, syncs_ok, exit_status, dbVars, spreadsheet, data_ws, loopVars,
                   stopVars, cycle_ok, table_found>>

\* main(): the result is printed, an exception is caught, and main returns:
\* the script ends with status 0; main of core/database.py catches nothing
\* and an exception ends the script with status 1
MainExit ==
    /\ pc = "returned"
    /\ pc' = "exited"
    /\ exit_status' = IF mode = "dbtest" /\ result = "raised" THEN 1 ELSE 0
    /\ UNCHANGED <<runVars, syncs_ok, result, dbVars, sheetVars, loopVars, stopVars,
                   cycle_ok, log, table_found>>

\* ---------------------------------------------------------- environment
\* _signal_handler, run between any two steps of the main thread
SignalHandler ==
    /\ mode = "interval"
    /\ pc \notin {"returned", "exited"}
    /\ is_running' = FALSE
    /\ stopped_in' = IF is_running THEN pc ELSE stopped_in
    /\ UNCHANGED <<runVars, syncs_ok, pc, result, exit_status, dbVars, sheetVars, loopVars,
                   sleeps_after_stop, cycle_ok, log, table_found>>

\* the server or the network drops the database connection
ConnDrop ==
    /\ pc \notin {"returned", "exited"}
    /\ db_connection \in {"open", "aborted"}
    /\ db_connection' = "broken"
    /\ UNCHANGED <<runVars, syncs_ok, pc, result, exit_status, df, sheetVars, loopVars,
                   stopVars, cycle_ok, log, table_found>>

Next ==
    \/ ValidateEnvironment
    \/ DbConnect
    \/ TestConnection
    \/ TableExists
    \/ SheetsConnect
    \/ SetupWorksheets
    \/ GetTableData
    \/ UpdateDataWorksheet
    \/ UpdateMetadataWorksheet
    \/ AfterCycle
    \/ LoopCheck
    \/ WaitCheck
    \/ Sleep
    \/ PostWait
    \/ Shutdown
    \/ FinalMetadataWrite
    \/ MainExit
    \/ SignalHandler
    \/ ConnDrop

Spec == Init /\ [][Next]_vars

\* ============================================================ properties
CyclePcs == {"read", "write_data", "write_meta"}
WaitPcs == {"wait_check", "sleep", "post_wait"}
EndPcs == {"returned", "exited"}
\* the log entries of a get_table_data call
ReadOps == {"db:read", "db:connect", "db:execute"}

\* the value of the metadata worksheet's row whose attribute is key, "" if none
RECURSIVE Lookup(_, _)
Lookup(cells, key) ==
    IF cells = <<>> THEN ""
    ELSE IF Head(cells)[1] = key THEN Head(cells)[2] ELSE Lookup(Tail(cells), key)

\* the metadata worksheet has a row whose attribute is key
HasKey(cells, key) == \E k \in 1..Len(cells) : cells[k][1] = key

\* C1: a cycle whose read fails or yields zero rows returns failure in that
\* very step, issues nothing but the read, and leaves the data worksheet and
\* the metadata worksheet exactly as they were.
C1_FailedReadWritesNothing ==
    [][(pc = "read" /\ pc' # pc /\ (df'.isNone \/ DfLen(df') = 0))
          => /\ pc' = "cycle_ret"
             /\ cycle_ok' = FALSE
             /\ data_ws' = data_ws
             /\ meta_ws' = meta_ws
             /\ log' \subseteq (log \cup ReadOps)]_vars

\* a cycle of the loop failed at its read while the data worksheet still
\* holds the rows of an earlier cycle
C1_Witness ==
    /\ pc = "cycle_ret" /\ ~cycle_ok /\ in_loop
    /\ log = {"db:read", "db:execute"}
    /\ Len(data_ws.cells) > 1

\* C2: when the existence check finds the table missing, the run has
\* returned failure, the spreadsheet session was never opened, no worksheet
\* was created, cleared or updated and the table was not read.
C2_MissingTableNoWrite ==
    table_found = "missing"
        => /\ pc \in EndPcs
           /\ result = "false"
           /\ ~spreadsheet
           /\ log \subseteq {"db:connect"}
           /\ df = NoneDF
           /\ data_ws \in {AbsentWs, PriorDataWs}
           /\ meta_ws \in {AbsentWs, PriorMetaWs}

C2_Witness ==
    /\ table_found = "missing" /\ pc = "exited" /\ data_ws = PriorDataWs

\* C3: once a stop request has cleared is_running during the wait, at most
\* one one-second sleep still completes and the scheduler only leaves the
\* wait for the shutdown: no cycle is started.
C3_StopObservedWithinOneSleep ==
    /\ sleeps_after_stop <= 1
    /\ stopped_in \in WaitPcs
          => pc \in WaitPcs \cup {"shutdown", "final_meta"} \cup EndPcs

C3_Witness ==
    /\ stopped_in = "sleep" /\ sleeps_after_stop = 1 /\ pc = "shutdown"
    /\ i < sync_interval

\* C4: the signal handler changes nothing but the flag; a cycle in progress
\* with the flag cleared goes on through its own steps to its return; and
\* the shutdown is entered only from a test of the flag (the while test or
\* the test after the wait).
C4_StopDoesNotInterruptCycle ==
    [][/\ is_running' # is_running
          => /\ ~is_running'
             /\ UNCHANGED <<runVars, syncs_ok, pc, result, exit_status, dbVars, sheetVars,
                            loopVars, cycle_ok, log, table_found>>
       /\ (pc \in CyclePcs /\ pc' # pc) => pc' \in CyclePcs \cup {"cycle_ret"}
       /\ (pc' = "shutdown" /\ pc # "shutdown")
          => pc \in {"loop_check", "post_wait"} /\ ~is_running]_vars

\* a stop request arrived before the data write of a cycle, which still
\* ended in success
C4_Witness ==
    /\ stopped_in = "write_data" /\ pc = "cycle_ret" /\ cycle_ok
    /\ data_ws.cells = prepare_dataframe_for_upload(df)

\* interval mode has ended because of a stop request
StoppedRun == mode = "interval" /\ pc \in EndPcs /\ result = "true"

\* C5 as stated: after a run ended by a stop request the connection is
\* released and the metadata worksheet's record has Status "Stopped".
C5_StopAlwaysRecordsStopped ==
    StoppedRun
        => /\ db_connection \in {"none", "closed"}
           /\ Lookup(meta_ws.cells, "Status") = "Stopped"

\* C5 amended: after a run ended by a stop request the connection is
\* released and the final write was attempted, after which nothing runs;
\* when that write succeeded the worksheet holds the Stopped record, and
\* when it failed the worksheet holds a cycle's Running record or is empty.
C5_StopRecordsStoppedBestEffort ==
    /\ "final:get" \in log => pc \in EndPcs
    /\ StoppedRun
          => /\ ~is_running
             /\ db_connection \in {"none", "closed"}
             /\ "final:get" \in log
             /\ "final:ok" \in log
                   => meta_ws.cells = SyncInfo(FinalMetadata(sync_count))
             /\ "final:ok" \notin log
                   => \/ meta_ws.cells = <<>>
                      \/ Lookup(meta_ws.cells, "Status") = "Running"

\* the stop arrived during a sleep of the wait and the final write went through
C5_Witness ==
    /\ StoppedRun /\ stopped_in = "sleep" /\ "final:ok" \in log
    /\ Lookup(meta_ws.cells, "Status") = "Stopped"
    /\ db_connection = "closed"

\* C6: an interval run ends by returning; it returns failure exactly when it
\* ended before the loop (validation, connection or initial cycle failed),
\* with no cycle after the failure, and success exactly when it ended after
\* the loop, on a stop request.
C6_InitialFailureAborts ==
    (mode = "interval" /\ pc \in EndPcs)
        => /\ result \in {"true", "false"}
           /\ result = "false" <=> ~in_loop
           /\ result = "false" => sync_count = 0
           /\ result = "true" => ~is_running

\* C7: a cycle of the loop that failed hands control back to the while test
\* and changes neither the flag nor the count; and while no stop is
\* requested every step of the loop leads on through the wait (the index
\* grows with each sleep) to the start of the next cycle, never out of the loop.
C7_FailedCycleLoopContinues ==
    [][/\ (pc = "cycle_ret" /\ in_loop /\ ~cycle_ok /\ pc' # pc)
          => (pc' = "loop_check" /\ UNCHANGED <<sync_count, is_running, result>>)
       /\ (pc \in {"loop_check"} \cup WaitPcs /\ is_running /\ pc' # pc)
          => pc' \in WaitPcs \cup {"read"}
       /\ (pc = "sleep" /\ pc' # pc) => (pc' = "wait_check" /\ i' = i + 1)
       /\ (pc = "wait_check" /\ is_running /\ pc' # pc)
          => pc' = (IF i < sync_interval THEN "sleep" ELSE "post_wait")
       /\ (pc = "post_wait" /\ is_running /\ pc' # pc)
          => (pc' = "read" /\ sync_count' = sync_count + 1)]_vars

\* cycle #3 has been started after cycle #2 failed
C7_Witness ==
    /\ pc = "read" /\ in_loop /\ sync_count = 3 /\ ~cycle_ok /\ is_running

\* C8: when the run has returned, the database connection it opened is closed.
C8_ConnectionClosedOnReturn ==
    pc \in EndPcs => db_connection \in {"none", "closed"}

\* C9: the exit status of a one-shot run is zero exactly when the sync succeeded.
C9_ExitStatusReflectsOutcome ==
    (mode = "oneshot" /\ pc = "exited") => (exit_status = 0 <=> result = "true")

\* C10: when a cycle returns success, the metadata worksheet gives the row
\* and column counts of the frame read in that cycle and the data worksheet
\* holds that frame: the column names, then one row of cleaned cells per row.
C10_SuccessfulCycleReflected ==
    (pc = "cycle_ret" /\ cycle_ok)
        => /\ ~df.isNone
           /\ Lookup(meta_ws.cells, "Total Rows") = IntToStr(DfLen(df))
           /\ Lookup(meta_ws.cells, "Total Columns") = IntToStr(DfCols(df))
           /\ Len(data_ws.cells) = DfLen(df) + 1
           /\ data_ws.cells[1] = df.columns
           /\ \A k \in 1..DfLen(df) :
                 /\ Len(data_ws.cells[k + 1]) = DfCols(df)
                 /\ \A j \in 1..DfCols(df) :
                       data_ws.cells[k + 1][j] = CleanCell(df.rows[k][j])

\* the second cycle of an interval run succeeded with a smaller table than
\* the one the worksheets held before
C10_Witness ==
    /\ pc = "cycle_ret" /\ cycle_ok /\ mode = "interval" /\ sync_count = 2
    /\ DfLen(df) = 1 /\ DfCols(df) = 2
    /\ Lookup(meta_ws.cells, "Total Rows") = "1"

\* C11: after a successful overwrite the worksheet holds exactly the rows it
\* was given, from the top-left cell, and no cell of its previous contents:
\* the data worksheet after the data write, the metadata worksheet after the
\* record of a cycle and after the final record.
C11_OverwriteLeavesExactlyGivenRows ==
    /\ pc = "write_meta" => data_ws.cells = prepare_dataframe_for_upload(df)
    /\ (pc = "cycle_ret" /\ cycle_ok)
          => meta_ws.cells = SyncInfo(IF mode = "interval" THEN CycleMetadata(df)
                                                          ELSE OneTimeMetadata(df))
    /\ "final:ok" \in log => meta_ws.cells = SyncInfo(FinalMetadata(sync_count))

\* the first data write of a run has put one row of one column into a
\* worksheet that held the MaxRows rows of MaxCols columns of an earlier run
C11_Witness ==
    /\ pc = "write_meta" /\ meta_ws = PriorMetaWs
    /\ Len(PriorDataWs.cells) > 2 /\ Width(PriorDataWs.cells) > 1
    /\ data_ws.cells = << <<"id">>, <<"1">> >>

\* C12: get_or_create_worksheet called again with the same name, whatever
\* the sizes asked, gives the worksheet that is there: the set-up leaves an
\* existing worksheet as it is and creates an absent one with the sizes
\* asked; the calls of the writes that follow never create a worksheet,
\* never reduce its rows or columns, and change its contents only by the
\* clear and the update that come after the call.
C12_EnsureWorksheetIdempotent ==
    [][/\ (pc = "setup_worksheets" /\ pc' # pc)
          => /\ data_ws.exists => data_ws' = data_ws
             /\ meta_ws.exists => meta_ws' = meta_ws
             /\ (~data_ws.exists /\ data_ws'.exists)
                   => data_ws' = [exists |-> TRUE, rows |-> SetupDataRows,
                                  cols |-> SetupDataCols, cells |-> <<>>]
       /\ (pc = "write_data" /\ pc' # pc)
          => /\ data_ws.exists /\ data_ws'.exists
             /\ "data:get" \in log' /\ "data:create" \notin log'
             /\ data_ws'.rows >= data_ws.rows /\ data_ws'.cols >= data_ws.cols
             /\ "data:clear" \notin log' => data_ws' = data_ws
       /\ (pc \in {"write_meta", "final_meta"} /\ pc' # pc)
          => /\ meta_ws.exists /\ meta_ws'.exists
             /\ "meta:create" \notin log' /\ "final:create" \notin log'
             /\ meta_ws'.rows >= meta_ws.rows /\ meta_ws'.cols >= meta_ws.cols
             /\ ("meta:clear" \notin log' /\ "final:clear" \notin log')
                   => meta_ws' = meta_ws]_vars

\* the data write of the second cycle asked for a smaller worksheet than the
\* one the set-up had asked for, and wrote into the worksheet of the set-up
C12_Witness ==
    /\ pc = "write_meta" /\ sync_count = 2 /\ "data:get" \in log
    /\ Max(DfLen(df) + RowSlack, MinDataRows) < SetupDataRows
    /\ data_ws.rows = SetupDataRows /\ data_ws.cols = SetupDataCols
    /\ data_ws.cells = prepare_dataframe_for_upload(df)

\* C13: for the frame of c columns and r rows that a read has just given,
\* the rows prepared for the upload are r+1 rows of exactly c cells: first the
\* column names in their order, then one row per row of the frame, in the
\* order of the frame (ascending ids), cell for cell.
C13_NormalizerShape ==
    (pc \in {"write_data", "cycle_ret"} /\ ~df.isNone)
        => LET out == prepare_dataframe_for_upload(df)
           IN /\ Len(out) = DfLen(df) + 1
              /\ \A k \in 1..Len(out) : Len(out[k]) = DfCols(df)
              /\ out[1] = df.columns
              /\ \A k \in 1..DfLen(df) :
                    /\ out[k + 1][1] = IntToStr(k)
                    /\ \A j \in 1..DfCols(df) : out[k + 1][j] = CleanCell(df.rows[k][j])

\* the rows prepared from the largest frame have been written
C13_Witness ==
    /\ pc = "write_meta" /\ DfLen(df) = MaxRows /\ DfCols(df) = MaxCols
    /\ Len(data_ws.cells) = MaxRows + 1
    /\ data_ws.cells[1] = [j \in 1..MaxCols |-> ColName(j)]
    /\ data_ws.cells[MaxRows + 1][1] = IntToStr(MaxRows)

\* C14: after a data write every data cell of the worksheet is the text of
\* the raw database value alone: "" for a null, YYYY-MM-DD HH:MM:SS for a
\* timestamp, the default text for any other value.
C14_CellDeterminedByRawValue ==
    pc = "write_meta"
        => \A k \in 1..DfLen(df) : \A j \in 1..DfCols(df) :
              data_ws.cells[k + 1][j] = CleanCell(CellOf(k, j))

\* the example of C14: the two rows of [id, name, created_at] as uploaded
C14_Example ==
    /\ pc = "write_meta"
    /\ data_ws.cells = << <<"id", "name", "created_at">>,
                          <<"1", "Ann", "2024-01-01 00:00:00">>,
                          <<"2", "Bo", "">> >>

\* C15: a read of an empty table gives a frame, not None, with zero rows and
\* the columns of the table.
C15_EmptyTableKeepsColumns ==
    (~df.isNone /\ DfLen(df) = 0)
        => df.columns = [j \in 1..table_columns |-> ColName(j)]

\* C16: in both modes every call of get_table_data, the one of each later
\* cycle included, is made after table_exists has found the table (both
\* calls are given self.table_name).
C16_ReadOnlyAfterExistenceCheck ==
    /\ pc \in CyclePcs \cup {"cycle_ret"} => table_found = "found"
    /\ "db:read" \in log => table_found = "found"

\* the read of the third cycle of an interval run has been executed
C16_Witness ==
    /\ pc = "write_data" /\ sync_count = 3 /\ "db:execute" \in log
    /\ table_found = "found"

\* C17: in interval mode the connection is kept from cycle to cycle and
\* tested at the read of each cycle: found absent or closed, connect() is
\* called first; when it succeeds the SELECT runs on the new connection, and
\* when it fails the cycle fails with no SELECT sent and the connection as
\* it was.  A connection found present and not closed is used as it is.
C17_ReconnectBeforeRead ==
    [][(mode = "interval" /\ pc = "read" /\ pc' # pc)
          => /\ needs_connect(db_connection)
                   => /\ "db:connect" \in log'
                      /\ "db:execute" \in log' => db_connection' \in {"open", "aborted"}
                      /\ ~df'.isNone => db_connection' = "open"
                      /\ "db:execute" \notin log'
                            => /\ db_connection' = db_connection
                               /\ df'.isNone
                               /\ pc' = "cycle_ret" /\ ~cycle_ok'
             /\ ~needs_connect(db_connection)
                   => "db:connect" \notin log' /\ "db:execute" \in log']_vars

\* a cycle of the loop found the connection closed, connected again and read
\* the table
C17_Witness ==
    /\ mode = "interval" /\ in_loop /\ pc = "write_data"
    /\ "db:connect" \in log /\ "db:execute" \in log
    /\ db_connection = "open" /\ DfLen(df) > 0

\* C18: every record this run has written to the metadata worksheet (the
\* record of a cycle in either mode, the final record) has rows for the
\* last-sync time, the source table, the row count, the column count, the
\* data worksheet, the sync mode (Sync Type or Sync Interval) and the run
\* status.
C18_RecordHasAllAttributes ==
    ((pc = "cycle_ret" /\ cycle_ok) \/ "final:ok" \in log)
        => /\ \A key \in {"Last Sync Time", "Source Table", "Total Rows", "Total Columns",
                           "Data Worksheet", "Status"} : HasKey(meta_ws.cells, key)
           /\ HasKey(meta_ws.cells, "Sync Type") \/ HasKey(meta_ws.cells, "Sync Interval")

\* C19: in interval mode no step of a cycle, of the loop or of the shutdown
\* ends the run by an exception (only the existence check of the set-up
\* can); a failed read, data write or record write makes the cycle return
\* failure; the shutdown goes on to the final write, and the final write,
\* failed or not, to the return of True.
C19_NoFailureEscapes ==
    [][mode = "interval"
          => /\ (result' = "raised" /\ result # "raised") => pc = "table_exists"
             /\ (pc = "read" /\ pc' # pc /\ df'.isNone)
                   => (pc' = "cycle_ret" /\ ~cycle_ok' /\ result' = "none")
             /\ (pc = "write_data" /\ pc' # pc /\ pc' # "write_meta")
                   => (pc' = "cycle_ret" /\ ~cycle_ok' /\ result' = "none")
             /\ (pc = "write_meta" /\ pc' # pc)
                   => /\ pc' = "cycle_ret" /\ result' = "none"
                      /\ meta_ws'.cells # SyncInfo(CycleMetadata(df)) => ~cycle_ok'
             /\ (pc = "shutdown" /\ pc' # pc) => (pc' = "final_meta" /\ result' = "none")
             /\ (pc = "final_meta" /\ pc' # pc) => (pc' = "returned" /\ result' = "true")]_vars

\* the record write of a cycle of the loop failed after its clear, and the
\* loop is at its test again
C19_Witness ==
    /\ mode = "interval" /\ in_loop /\ pc = "loop_check" /\ ~cycle_ok
    /\ "meta:update" \in log /\ meta_ws.cells = <<>>
    /\ result = "none"

\* C20: a cycle does not depend on the earlier ones: at the read of a cycle
\* of the loop, whatever happened before, the read can give the table's rows
\* unless the connection is down at that moment.
C20_CycleIndependentOfEarlier ==
    (mode = "interval" /\ in_loop /\ pc = "read" /\ db_connection # "broken")
        => \E r \in get_table_data(db_connection, table_columns) : DfLen(r.df) > 0

\* C21: in a cycle the record is written only after the data write has
\* succeeded: the data write leaves the metadata worksheet alone, a failed
\* data write ends the cycle as failed with no call on the metadata
\* worksheet, and the record write leaves the data worksheet alone, so a
\* cycle failed by its record write keeps the rows it has just written.
C21_MetadataAfterDataNoRollback ==
    [][/\ (pc = "write_data" /\ pc' # pc)
          => /\ meta_ws' = meta_ws
             /\ log' \cap Tag("meta", {"get", "create", "clear", "update"}) = {}
             /\ pc' = "write_meta" => data_ws'.cells = prepare_dataframe_for_upload(df)
             /\ pc' # "write_meta" => (pc' = "cycle_ret" /\ ~cycle_ok')
       /\ (pc = "write_meta" /\ pc' # pc)
          => /\ data_ws' = data_ws
             /\ data_ws'.cells = prepare_dataframe_for_upload(df)
             /\ pc' = "cycle_ret"]_vars

\* a cycle failed at the update of its record, after its clear, and the data
\* worksheet holds the rows of the cycle
C21_Witness ==
    /\ pc = "cycle_ret" /\ ~cycle_ok /\ "meta:update" \in log
    /\ meta_ws.cells = <<>>
    /\ DfLen(df) > 0 /\ data_ws.cells = prepare_dataframe_for_upload(df)

\* C22: the overwrite is not atomic: a write that fails after its update was
\* sent leaves the worksheet cleared, with neither the earlier cells nor the
\* new rows; a write that fails with no update sent (the clear or the
\* worksheet lookup failed) leaves the worksheet as it was.
C22_OverwriteNotAtomic ==
    [][/\ (pc = "write_data" /\ pc' = "cycle_ret")
          => /\ ~cycle_ok'
             /\ "data:update" \in log' => ("data:clear" \in log' /\ data_ws'.cells = <<>>)
             /\ "data:update" \notin log' => data_ws' = data_ws
       /\ (pc = "write_meta" /\ pc' = "cycle_ret" /\ ~cycle_ok')
          => /\ "meta:update" \in log' => ("meta:clear" \in log' /\ meta_ws'.cells = <<>>)
             /\ "meta:update" \notin log' => meta_ws' = meta_ws]_vars

\* the data write of the second cycle failed at its update: the rows of the
\* first cycle are gone and the new ones are not there
C22_Witness ==
    /\ pc = "cycle_ret" /\ ~cycle_ok /\ sync_count = 2
    /\ "data:update" \in log /\ data_ws.cells = <<>>
    /\ DfLen(df) > 0 /\ Len(meta_ws.cells) > 0

\* C23: the worksheet that update_data_worksheet obtains for a frame of r
\* rows and c columns has at least max(r+10, 100) rows and max(c+5, 20)
\* columns, hence room for the r+1 rows of c cells to be written, whether
\* it is created by the call or exists already.
C23_WorksheetSizedForFrame ==
    pc = "write_data"
        => \A g \in get_or_create_worksheet(data_ws,
                                             Max(DfLen(df) + RowSlack, MinDataRows),
                                             Max(DfCols(df) + ColSlack, MinDataCols)) :
              g.ok => /\ g.ws.rows >= Max(DfLen(df) + RowSlack, MinDataRows)
                      /\ g.ws.cols >= Max(DfCols(df) + ColSlack, MinDataCols)
                      /\ g.ws.rows >= DfLen(df) + 1
                      /\ g.ws.cols >= DfCols(df)

\* C24: query_database never raises: whatever the connection it is called
\* with, it gives a result or None.
C24_QueryNeverRaises ==
    pc = "table_exists" => \A q \in query_database(db_connection) : q.res # "raise"

\* C25: when the database can be reached, table_exists can answer True (it
\* does for an existing table) whether the object was never connected, is
\* connected, or was disconnected after an earlier use.
C25_TableExistsInAnyState ==
    /\ \E r \in table_exists("none") : r.ans = "true"
    /\ (pc = "table_exists" /\ db_connection # "broken")
          => \E r \in table_exists(db_connection) : r.ans = "true"

\* C26: the Total Syncs Completed of the final record is the number of
\* cycles of the run that returned success.
C26_TotalSyncsCountsSuccesses ==
    (StoppedRun /\ "final:ok" \in log)
        => Lookup(meta_ws.cells, "Total Syncs Completed") = IntToStr(syncs_ok)

====
